---- MODULE Spec2Model ----
(***************************************************************************)
(* Residual evaluators of src/base/cost_functions.h (COLMAP):              *)
(*   BundleAdjustmentCostFunction, BundleAdjustmentConstantPoseCostFunction*)
(*   RigBundleAdjustmentCostFunction, RelativePoseCostFunction.            *)
(*                                                                         *)
(* The evaluators are templates over the scalar type T.  The model         *)
(* instantiates T with the exact rationals extended by +Inf, -Inf and NaN  *)
(* (the values a division by zero produces), so that every equality below  *)
(* is an equality of exactly computed values.  A scalar is a pair <<n, d>> *)
(* in lowest terms with d >= 0; d = 0 encodes <<1,0>> = +Inf,              *)
(* <<-1,0>> = -Inf and <<0,0>> = NaN.                                       *)
(*                                                                         *)
(* A C array a[0..n-1] is the tuple <<a[0], ..., a[n-1]>>: C index i is    *)
(* TLA+ index i+1.                                                         *)
(***************************************************************************)
EXTENDS Integers, Sequences, FiniteSets, TLC

\* ------------------------------------------------------------------------
\* Scalar type T
\* ------------------------------------------------------------------------
Abs(n) == IF n < 0 THEN -n ELSE n

Sign(n) == IF n > 0 THEN 1 ELSE IF n < 0 THEN -1 ELSE 0

RECURSIVE GCD(_, _)
GCD(a, b) == IF b = 0 THEN a ELSE GCD(b, a % b)

\* The scalar n/d in lowest terms; d = 0 gives +Inf, -Inf or NaN.
Norm(n, d) ==
  IF d = 0 THEN <<Sign(n), 0>>
  ELSE IF n = 0 THEN <<0, 1>>
  ELSE LET g == GCD(Abs(n), Abs(d))
       IN  <<(Sign(d) * n) \div g, Abs(d) \div g>>

\* T(n): conversion of a number to the scalar type.
R(n) == <<n, 1>>

Zero == R(0)

One == R(1)

Two == R(2)

PosInf == <<1, 0>>

NegInf == <<-1, 0>>

NaN == <<0, 0>>

IsFinite(a) == a[2] # 0

IsZero(a) == a[2] # 0 /\ a[1] = 0

\* a + b.  Inf + Inf of one sign is that Inf, Inf + (-Inf) is NaN.
RAdd(a, b) ==
  IF a[2] = 0 /\ b[2] = 0 THEN (IF a = b THEN a ELSE NaN)
  ELSE IF a[2] = 0 THEN a
  ELSE IF b[2] = 0 THEN b
  ELSE LET g == GCD(a[2], b[2])
       IN  Norm(a[1] * (b[2] \div g) + b[1] * (a[2] \div g),
                (a[2] \div g) * b[2])

\* -a
RNeg(a) == <<-a[1], a[2]>>

\* a - b
RSub(a, b) == RAdd(a, RNeg(b))

\* a * b.  0 * Inf is NaN.
RMul(a, b) ==
  IF a[2] = 0 \/ b[2] = 0 THEN <<Sign(a[1]) * Sign(b[1]), 0>>
  ELSE IF a[1] = 0 \/ b[1] = 0 THEN <<0, 1>>
  ELSE LET g1 == GCD(Abs(a[1]), b[2])
           g2 == GCD(Abs(b[1]), a[2])
       IN  <<(a[1] \div g1) * (b[1] \div g2), (a[2] \div g2) * (b[2] \div g1)>>

\* 1 / b.  1 / 0 is +Inf, 1 / Inf is 0.
RInv(b) ==
  IF b[2] = 0 THEN (IF b[1] = 0 THEN NaN ELSE <<0, 1>>)
  ELSE IF b[1] = 0 THEN PosInf
  ELSE IF b[1] < 0 THEN <<-b[2], -b[1]>>
  ELSE <<b[2], b[1]>>

\* a / b.  x / 0 is Inf with the sign of x, 0 / 0 is NaN.
RDiv(a, b) == RMul(a, RInv(b))

\* ------------------------------------------------------------------------
\* Small vectors and matrices over T
\* ------------------------------------------------------------------------
VAdd3(a, b) == <<RAdd(a[1], b[1]), RAdd(a[2], b[2]), RAdd(a[3], b[3])>>

VScale3(s, a) == <<RMul(s, a[1]), RMul(s, a[2]), RMul(s, a[3])>>

Dot3(a, b) ==
  RAdd(RAdd(RMul(a[1], b[1]), RMul(a[2], b[2])), RMul(a[3], b[3]))

\* Matrix (tuple of rows) times column vector.
MatVec3(M, v) == <<Dot3(M[1], v), Dot3(M[2], v), Dot3(M[3], v)>>

Col3(M, j) == <<M[1][j], M[2][j], M[3][j]>>

\* Matrix product.
MatMul3(A, B) ==
  [i \in 1..3 |-> [j \in 1..3 |-> Dot3(A[i], Col3(B, j))]]

Transpose3(M) == <<Col3(M, 1), Col3(M, 2), Col3(M, 3)>>

\* ------------------------------------------------------------------------
\* Rotation library (ceres/rotation.h), as called by the evaluators
\* ------------------------------------------------------------------------
\* ceres::UnitQuaternionRotatePoint(q, pt, result)
UnitQuaternionRotatePoint(q, pt) ==
  LET t2 == RMul(q[1], q[2])
      t3 == RMul(q[1], q[3])
      t4 == RMul(q[1], q[4])
      t5 == RNeg(RMul(q[2], q[2]))
      t6 == RMul(q[2], q[3])
      t7 == RMul(q[2], q[4])
      t8 == RNeg(RMul(q[3], q[3]))
      t9 == RMul(q[3], q[4])
      t1 == RNeg(RMul(q[4], q[4]))
  IN  << RAdd(RMul(Two, RAdd(RAdd(RMul(RAdd(t8, t1), pt[1]),
                                  RMul(RSub(t6, t4), pt[2])),
                             RMul(RAdd(t3, t7), pt[3]))), pt[1]),
         RAdd(RMul(Two, RAdd(RAdd(RMul(RAdd(t4, t6), pt[1]),
                                  RMul(RAdd(t5, t1), pt[2])),
                             RMul(RSub(t9, t2), pt[3]))), pt[2]),
         RAdd(RMul(Two, RAdd(RAdd(RMul(RSub(t7, t3), pt[1]),
                                  RMul(RAdd(t2, t9), pt[2])),
                             RMul(RAdd(t5, t8), pt[3]))), pt[3]) >>

\* ceres::QuaternionProduct(z, w, zw)
QuaternionProduct(z, w) ==
  << RSub(RSub(RSub(RMul(z[1], w[1]), RMul(z[2], w[2])),
               RMul(z[3], w[3])), RMul(z[4], w[4])),
     RSub(RAdd(RAdd(RMul(z[1], w[2]), RMul(z[2], w[1])),
               RMul(z[3], w[4])), RMul(z[4], w[3])),
     RAdd(RAdd(RSub(RMul(z[1], w[3]), RMul(z[2], w[4])),
               RMul(z[3], w[1])), RMul(z[4], w[2])),
     RAdd(RSub(RAdd(RMul(z[1], w[4]), RMul(z[2], w[3])),
               RMul(z[3], w[2])), RMul(z[4], w[1])) >>

\* Squared norm of a quaternion.
QuatNorm2(q) ==
  RAdd(RAdd(RAdd(RMul(q[1], q[1]), RMul(q[2], q[2])), RMul(q[3], q[3])),
       RMul(q[4], q[4]))

IsUnitQuat(q) == QuatNorm2(q) = One

\* ceres::QuaternionToRotation(q, R) with a row-major R: the scaled rotation
\* matrix of q, divided by the squared norm of q.
QuaternionToRotation(q) ==
  LET a == q[1]
      b == q[2]
      c == q[3]
      d == q[4]
      aa == RMul(a, a)
      ab == RMul(a, b)
      ac == RMul(a, c)
      ad == RMul(a, d)
      bb == RMul(b, b)
      bc == RMul(b, c)
      bd == RMul(b, d)
      cc == RMul(c, c)
      cd == RMul(c, d)
      dd == RMul(d, d)
      normalizer == RDiv(One, RAdd(RAdd(RAdd(aa, bb), cc), dd))
      S == << << RSub(RSub(RAdd(aa, bb), cc), dd),
                 RMul(Two, RSub(bc, ad)),
                 RMul(Two, RAdd(ac, bd)) >>,
              << RMul(Two, RAdd(ad, bc)),
                 RSub(RAdd(RSub(aa, bb), cc), dd),
                 RMul(Two, RSub(cd, ab)) >>,
              << RMul(Two, RSub(bd, ac)),
                 RMul(Two, RAdd(ab, cd)),
                 RAdd(RSub(RSub(aa, bb), cc), dd) >> >>
  IN  [i \in 1..3 |-> [j \in 1..3 |-> RMul(S[i][j], normalizer)]]

\* ------------------------------------------------------------------------
\* Camera model (template parameter CameraModel): the simple pinhole model,
\* camera_params = (f, cx, cy)
\* ------------------------------------------------------------------------
num_params == 3

\* CameraModel::WorldToImage(params, u, v, &x, &y)
WorldToImage(params, u, v) ==
  << RAdd(RMul(params[1], u), params[2]),
     RAdd(RMul(params[1], v), params[3]) >>

\* ------------------------------------------------------------------------
\* Activations.  An evaluation in progress is a record
\*   pc        the next statement of operator()
\*   L         the automatic variables of operator()
\*   residuals the caller's output array
\*   ret       the value returned (meaningful once pc = "done")
\*   reads     the cells <<k, i>> read so far: index i of the k-th pointer
\*             argument of operator() (both counted from 0)
\*   writes    the indices of residuals written so far
\* ------------------------------------------------------------------------
Unset == <<>>

EmptyLocals ==
  [qvec |-> Unset, tvec |-> Unset, point3D_local |-> Unset, xy |-> Unset,
   R |-> Unset, t_x |-> Unset, E |-> Unset, x1_h |-> Unset, x2_h |-> Unset,
   Ex1 |-> Unset, Etx2 |-> Unset, x2tEx1 |-> Unset]

Activation(pc, L, residuals, ret, reads, writes) ==
  [pc |-> pc, L |-> L, residuals |-> residuals, ret |-> ret,
   reads |-> reads, writes |-> writes]

\* The activation at the entry of operator().
Entry(pc) == Activation(pc, EmptyLocals, Unset, FALSE, {}, {})

\* The cells 0..n-1 of pointer argument k.
Cells(k, n) == {<<k, i>> : i \in 0..(n - 1)}

\* point3D_local[0..2] += tvec[0..2]
Translate(local, tvec) == VAdd3(local, tvec)

\* The division guarded: skipped where point3D_local[2] is zero.
NormalizeToImagePlane_Guarded(local) ==
  IF IsZero(local[3]) THEN local
  ELSE <<RDiv(local[1], local[3]), RDiv(local[2], local[3]), local[3]>>

\* point3D_local[0] /= point3D_local[2]; point3D_local[1] /= point3D_local[2];
NormalizeToImagePlane(local) ==
  LET l0 == RDiv(local[1], local[3])
      l1 == RDiv(local[2], local[3])
  IN  <<l0, l1, local[3]>>

\* A slip of the index of the second line: residuals[1] = y - T(point2D_(0)).
ReprojectionError_IndexSlip(xy, point2D_) ==
  <<RSub(xy[1], point2D_[1]), RSub(xy[2], point2D_[1])>>

\* residuals[0] = x - T(point2D_(0)); residuals[1] = y - T(point2D_(1));
ReprojectionError(xy, point2D_) ==
  <<RSub(xy[1], point2D_[1]), RSub(xy[2], point2D_[2])>>

\* ------------------------------------------------------------------------
\* BundleAdjustmentCostFunction
\* ------------------------------------------------------------------------
\* The constructor: point2D_(point2D).
BundleAdjustmentCostFunction_New(point2D) == [point2D_ |-> point2D]

\* Create: AutoDiffCostFunction<..., 2, 4, 3, 3, CameraModel::num_params>.
BundleAdjustmentCostFunction_Create(point2D) ==
  [functor |-> BundleAdjustmentCostFunction_New(point2D),
   num_residuals |-> 2,
   block_sizes |-> <<4, 3, 3, num_params>>]

\* One statement of operator()(qvec, tvec, point3D, camera_params, residuals)
\* with a = [qvec, tvec, point3D, camera_params].
BundleAdjustmentCostFunction_Step(self, a, f) ==
  CASE f.pc = "rotate" ->
         [f EXCEPT !.pc = "translate",
                   !.L.point3D_local =
                       UnitQuaternionRotatePoint(a.qvec, a.point3D),
                   !.reads = @ \cup Cells(0, 4) \cup Cells(2, 3)]
    [] f.pc = "translate" ->
         [f EXCEPT !.pc = "normalize",
                   !.L.point3D_local = Translate(@, a.tvec),
                   !.reads = @ \cup Cells(1, 3)]
    [] f.pc = "normalize" ->
         [f EXCEPT !.pc = "project",
                   !.L.point3D_local = NormalizeToImagePlane(@)]
    [] f.pc = "project" ->
         [f EXCEPT !.pc = "residual",
                   !.L.xy = WorldToImage(a.camera_params,
                                         f.L.point3D_local[1],
                                         f.L.point3D_local[2])]
    [] f.pc = "residual" ->
         [f EXCEPT !.pc = "return",
                   !.residuals = ReprojectionError(f.L.xy, self.point2D_),
                   !.writes = @ \cup {0, 1}]
    [] f.pc = "return" ->
         [f EXCEPT !.pc = "done", !.ret = TRUE]
    [] OTHER -> f

\* operator() run from entry to return.
BundleAdjustmentCostFunction_Eval(self, a) ==
  LET S(f) == BundleAdjustmentCostFunction_Step(self, a, f)
  IN  S(S(S(S(S(S(Entry("rotate")))))))

\* ------------------------------------------------------------------------
\* BundleAdjustmentConstantPoseCostFunction
\* ------------------------------------------------------------------------
\* The constructor: qvec_(qvec), tvec_(tvec), point2D_(point2D).
BundleAdjustmentConstantPoseCostFunction_New(qvec, tvec, point2D) ==
  [qvec_ |-> qvec, tvec_ |-> tvec, point2D_ |-> point2D]

\* Create: AutoDiffCostFunction<..., 2, 3, CameraModel::num_params>.
BundleAdjustmentConstantPoseCostFunction_Create(qvec, tvec, point2D) ==
  [functor |-> BundleAdjustmentConstantPoseCostFunction_New(qvec, tvec, point2D),
   num_residuals |-> 2,
   block_sizes |-> <<3, num_params>>]

\* A slip of the index of the last line: point3D_local[2] += T(tvec_(1)).
TranslateConstant_IndexSlip(local, self) ==
  <<RAdd(local[1], self.tvec_[1]), RAdd(local[2], self.tvec_[2]),
    RAdd(local[3], self.tvec_[2])>>

\* point3D_local[0..2] += T(tvec_(0..2))
TranslateConstant(local, self) ==
  <<RAdd(local[1], self.tvec_[1]), RAdd(local[2], self.tvec_[2]),
    RAdd(local[3], self.tvec_[3])>>

\* One statement of operator()(point3D, camera_params, residuals)
\* with a = [point3D, camera_params].
BundleAdjustmentConstantPoseCostFunction_Step(self, a, f) ==
  CASE f.pc = "qvec" ->
         [f EXCEPT !.pc = "rotate",
                   !.L.qvec = <<self.qvec_[1], self.qvec_[2],
                                self.qvec_[3], self.qvec_[4]>>]
    [] f.pc = "rotate" ->
         [f EXCEPT !.pc = "translate",
                   !.L.point3D_local =
                       UnitQuaternionRotatePoint(f.L.qvec, a.point3D),
                   !.reads = @ \cup Cells(0, 3)]
    [] f.pc = "translate" ->
         [f EXCEPT !.pc = "normalize",
                   !.L.point3D_local = TranslateConstant(@, self)]
    [] f.pc = "normalize" ->
         [f EXCEPT !.pc = "project",
                   !.L.point3D_local = NormalizeToImagePlane(@)]
    [] f.pc = "project" ->
         [f EXCEPT !.pc = "residual",
                   !.L.xy = WorldToImage(a.camera_params,
                                         f.L.point3D_local[1],
                                         f.L.point3D_local[2])]
    [] f.pc = "residual" ->
         [f EXCEPT !.pc = "return",
                   !.residuals = ReprojectionError(f.L.xy, self.point2D_),
                   !.writes = @ \cup {0, 1}]
    [] f.pc = "return" ->
         [f EXCEPT !.pc = "done", !.ret = TRUE]
    [] OTHER -> f

\* operator() run from entry to return.
BundleAdjustmentConstantPoseCostFunction_Eval(self, a) ==
  LET S(f) == BundleAdjustmentConstantPoseCostFunction_Step(self, a, f)
  IN  S(S(S(S(S(S(S(Entry("qvec"))))))))

\* ------------------------------------------------------------------------
\* RigBundleAdjustmentCostFunction
\* ------------------------------------------------------------------------
\* The constructor: point2D_(point2D).
RigBundleAdjustmentCostFunction_New(point2D) == [point2D_ |-> point2D]

\* The sizes of the blocks of the relative pose exchanged: 2, 4, 3, 3, 4, 3.
RigBundleAdjustmentCostFunction_Create_SwappedSizes(point2D) ==
  [functor |-> [point2D_ |-> point2D],
   num_residuals |-> 2,
   block_sizes |-> <<4, 3, 3, 4, 3, num_params>>]

\* Create: AutoDiffCostFunction<..., 2, 4, 3, 4, 3, 3, CameraModel::num_params>.
RigBundleAdjustmentCostFunction_Create(point2D) ==
  [functor |-> RigBundleAdjustmentCostFunction_New(point2D),
   num_residuals |-> 2,
   block_sizes |-> <<4, 3, 4, 3, 3, num_params>>]

\* The product taken in the other order: QuaternionProduct(rig_qvec, rel_qvec).
ConcatenateRotations_Swapped(rel_qvec, rig_qvec) ==
  QuaternionProduct(rig_qvec, rel_qvec)

\* "Concatenate rotations": qvec of the camera from the pose of the rig and
\* the pose of the camera within the rig.
ConcatenateRotations(rel_qvec, rig_qvec) ==
  QuaternionProduct(rel_qvec, rig_qvec)

\* The wrong vector rotated: UnitQuaternionRotatePoint(rel_qvec, rel_tvec, tvec).
ConcatenateTranslations_WrongVector(rel_qvec, rig_tvec, rel_tvec) ==
  VAdd3(UnitQuaternionRotatePoint(rel_qvec, rel_tvec), rel_tvec)

\* "Concatenate translations": tvec of the camera.
ConcatenateTranslations(rel_qvec, rig_tvec, rel_tvec) ==
  VAdd3(UnitQuaternionRotatePoint(rel_qvec, rig_tvec), rel_tvec)

\* One statement of operator()(rig_qvec, rig_tvec, rel_qvec, rel_tvec,
\* point3D, camera_params, residuals) with a = [rig_qvec, rig_tvec, rel_qvec,
\* rel_tvec, point3D, camera_params].
RigBundleAdjustmentCostFunction_Step(self, a, f) ==
  CASE f.pc = "qvec" ->
         [f EXCEPT !.pc = "tvec",
                   !.L.qvec = ConcatenateRotations(a.rel_qvec, a.rig_qvec),
                   !.reads = @ \cup Cells(2, 4) \cup Cells(0, 4)]
    [] f.pc = "tvec" ->
         [f EXCEPT !.pc = "rotate",
                   !.L.tvec = ConcatenateTranslations(a.rel_qvec, a.rig_tvec,
                                                      a.rel_tvec),
                   !.reads = @ \cup Cells(2, 4) \cup Cells(1, 3)
                               \cup Cells(3, 3)]
    [] f.pc = "rotate" ->
         [f EXCEPT !.pc = "translate",
                   !.L.point3D_local =
                       UnitQuaternionRotatePoint(f.L.qvec, a.point3D),
                   !.reads = @ \cup Cells(4, 3)]
    [] f.pc = "translate" ->
         [f EXCEPT !.pc = "normalize",
                   !.L.point3D_local = Translate(@, f.L.tvec)]
    [] f.pc = "normalize" ->
         [f EXCEPT !.pc = "project",
                   !.L.point3D_local = NormalizeToImagePlane(@)]
    [] f.pc = "project" ->
         [f EXCEPT !.pc = "residual",
                   !.L.xy = WorldToImage(a.camera_params,
                                         f.L.point3D_local[1],
                                         f.L.point3D_local[2])]
    [] f.pc = "residual" ->
         [f EXCEPT !.pc = "return",
                   !.residuals = ReprojectionError(f.L.xy, self.point2D_),
                   !.writes = @ \cup {0, 1}]
    [] f.pc = "return" ->
         [f EXCEPT !.pc = "done", !.ret = TRUE]
    [] OTHER -> f

\* operator() run from entry to return.
RigBundleAdjustmentCostFunction_Eval(self, a) ==
  LET S(f) == RigBundleAdjustmentCostFunction_Step(self, a, f)
  IN  S(S(S(S(S(S(S(S(Entry("qvec")))))))))

\* ------------------------------------------------------------------------
\* RelativePoseCostFunction
\* ------------------------------------------------------------------------
\* The constructor: x1_(x1), x2_(x2).
RelativePoseCostFunction_New(x1, x2) == [x1_ |-> x1, x2_ |-> x2]

\* Create: AutoDiffCostFunction<RelativePoseCostFunction, 1, 4, 3>.
RelativePoseCostFunction_Create(x1, x2) ==
  [functor |-> RelativePoseCostFunction_New(x1, x2),
   num_residuals |-> 1,
   block_sizes |-> <<4, 3>>]

\* A slip of a sign in the first row: t_x << 0, tvec[2], tvec[1], ...
CrossProductMatrix_SignSlip(tvec) ==
  << <<Zero, tvec[3], tvec[2]>>,
     <<tvec[3], Zero, RNeg(tvec[1])>>,
     <<RNeg(tvec[2]), tvec[1], Zero>> >>

\* t_x << 0, -tvec[2], tvec[1], tvec[2], 0, -tvec[0], -tvec[1], tvec[0], 0
CrossProductMatrix(tvec) ==
  << <<Zero, RNeg(tvec[3]), tvec[2]>>,
     <<tvec[3], Zero, RNeg(tvec[1])>>,
     <<RNeg(tvec[2]), tvec[1], Zero>> >>

\* Ex1(0)^2 + Ex1(1)^2 + Etx2(0)^2 + Etx2(1)^2
SampsonDenominator(Ex1, Etx2) ==
  RAdd(RAdd(RAdd(RMul(Ex1[1], Ex1[1]), RMul(Ex1[2], Ex1[2])),
            RMul(Etx2[1], Etx2[1])), RMul(Etx2[2], Etx2[2]))

\* The numerator not squared: x2tEx1 / (...).
SampsonError_NotSquared(x2tEx1, Ex1, Etx2) ==
  RDiv(x2tEx1, SampsonDenominator(Ex1, Etx2))

\* x2tEx1 * x2tEx1 / (Ex1(0)^2 + Ex1(1)^2 + Etx2(0)^2 + Etx2(1)^2)
SampsonError(x2tEx1, Ex1, Etx2) ==
  RDiv(RMul(x2tEx1, x2tEx1), SampsonDenominator(Ex1, Etx2))

\* One statement of operator()(qvec, tvec, residuals) with a = [qvec, tvec].
RelativePoseCostFunction_Step(self, a, f) ==
  CASE f.pc = "R" ->
         [f EXCEPT !.pc = "t_x",
                   !.L.R = QuaternionToRotation(a.qvec),
                   !.reads = @ \cup Cells(0, 4)]
    [] f.pc = "t_x" ->
         [f EXCEPT !.pc = "E",
                   !.L.t_x = CrossProductMatrix(a.tvec),
                   !.reads = @ \cup Cells(1, 3)]
    [] f.pc = "E" ->
         [f EXCEPT !.pc = "x_h", !.L.E = MatMul3(f.L.t_x, f.L.R)]
    [] f.pc = "x_h" ->
         [f EXCEPT !.pc = "sampson",
                   !.L.x1_h = <<self.x1_[1], self.x1_[2], One>>,
                   !.L.x2_h = <<self.x2_[1], self.x2_[2], One>>]
    [] f.pc = "sampson" ->
         LET Ex1 == MatVec3(f.L.E, f.L.x1_h)
         IN  [f EXCEPT !.pc = "residual",
                       !.L.Ex1 = Ex1,
                       !.L.Etx2 = MatVec3(Transpose3(f.L.E), f.L.x2_h),
                       !.L.x2tEx1 = Dot3(f.L.x2_h, Ex1)]
    [] f.pc = "residual" ->
         [f EXCEPT !.pc = "return",
                   !.residuals =
                       <<SampsonError(f.L.x2tEx1, f.L.Ex1, f.L.Etx2)>>,
                   !.writes = @ \cup {0}]
    [] f.pc = "return" ->
         [f EXCEPT !.pc = "done", !.ret = TRUE]
    [] OTHER -> f

\* operator() run from entry to return.
RelativePoseCostFunction_Eval(self, a) ==
  LET S(f) == RelativePoseCostFunction_Step(self, a, f)
  IN  S(S(S(S(S(S(S(Entry("R"))))))))

\* ------------------------------------------------------------------------
\* Inputs
\* ------------------------------------------------------------------------
\* The scalar n/d.
Q(n, d) == Norm(n, d)

\* Vectors with integer coordinates.
V2(a, b) == <<R(a), R(b)>>

V3(a, b, c) == <<R(a), R(b), R(c)>>

\* Unit quaternions (w, x, y, z) with rational coordinates.
QuatPool ==
  << <<One, Zero, Zero, Zero>>,
     <<Q(1, 2), Q(1, 2), Q(1, 2), Q(1, 2)>>,
     <<Q(3, 5), Zero, Q(4, 5), Zero>>,
     <<Zero, One, Zero, Zero>>,
     <<Q(1, 2), Q(-1, 2), Q(1, 2), Q(-1, 2)>>,
     <<Zero, Q(3, 5), Zero, Q(-4, 5)>>,
     <<Q(4, 5), Zero, Zero, Q(3, 5)>> >>

PointPool ==
  << V3(0, 0, 1), V3(1, 2, -2), V3(2, -1, 3), V3(1, 1, 0), V3(-1, 0, 2),
     V3(0, 3, 1) >>

\* How many quaternions of QuatPool the parameter blocks range over.
NumQuats == 4

\* How many points of PointPool the point blocks range over.
NumPoints == 3

Min(a, b) == IF a < b THEN a ELSE b

Quats == {QuatPool[i] : i \in 1..Min(NumQuats, Len(QuatPool))}

Points == {PointPool[i] : i \in 1..Min(NumPoints, Len(PointPool))}

IdentityQuat == <<One, Zero, Zero, Zero>>

ZeroVec == V3(0, 0, 0)

Tvecs == {ZeroVec, V3(1, -1, 2)}

Intrinsics == {V3(1, 0, 0), V3(2, 1, -1)}

Observations == {V2(0, 0), V2(1, -1)}

\* The pixel a noiseless camera at pose (q, t) with intrinsics c observes of
\* point p: rotate p by the rotation matrix of q, add t, divide x and y by z,
\* apply the camera model.
NoiselessPixel(q, t, p, c) ==
  LET P == VAdd3(MatVec3(QuaternionToRotation(q), p), t)
  IN  WorldToImage(c, RDiv(P[1], P[3]), RDiv(P[2], P[3]))

IsFinite2(v) == IsFinite(v[1]) /\ IsFinite(v[2])

\* ------------------------------------------------------------------------
\* State
\* ------------------------------------------------------------------------
VARIABLES
  blocks,    \* the caller's parameter blocks
  bundle,    \* a BundleAdjustmentCostFunction
  constpose, \* a BundleAdjustmentConstantPoseCostFunction
  rigbundle, \* a RigBundleAdjustmentCostFunction
  relpose,   \* a RelativePoseCostFunction
  out,       \* the evaluations made of each: its last activation
  hist,      \* <<the evaluation of relpose before tvec was rescaled>>, or <<>>
  chain,     \* the rigid transforms composed by the chained compositions
  act,       \* per thread: the evaluation it runs, statement by statement
  stack      \* per slot of automatic storage: the locals of operator()

vars == <<blocks, bundle, constpose, rigbundle, relpose, out, hist, chain,
          act, stack>>

objects == <<bundle, constpose, rigbundle, relpose>>

NoChain == <<>>

NoThreads == <<>>

NotEvaluated ==
  [ba |-> Entry("rotate"), cp |-> Entry("qvec"), rig |-> Entry("qvec"),
   rel |-> Entry("R")]

\* The arguments the caller passes to each operator().
ArgsBundle ==
  [qvec |-> blocks.qvec, tvec |-> blocks.tvec, point3D |-> blocks.point3D,
   camera_params |-> blocks.camera_params]

ArgsConstantPose ==
  [point3D |-> blocks.point3D, camera_params |-> blocks.camera_params]

ArgsRig ==
  [rig_qvec |-> blocks.qvec, rig_tvec |-> blocks.tvec,
   rel_qvec |-> blocks.rel_qvec, rel_tvec |-> blocks.rel_tvec,
   point3D |-> blocks.point3D, camera_params |-> blocks.camera_params]

ArgsRelativePose == [qvec |-> blocks.qvec, tvec |-> blocks.tvec]

\* ------------------------------------------------------------------------
\* Spec: the three reprojection cost functions built for one observation and
\* evaluated on the caller's parameter blocks
\* ------------------------------------------------------------------------
Init ==
  /\ blocks \in [qvec : Quats, tvec : Tvecs, rel_qvec : Quats,
                 rel_tvec : Tvecs, point3D : Points,
                 camera_params : Intrinsics]
  /\ \E obs \in Observations \cup
                  {px \in {NoiselessPixel(blocks.qvec, blocks.tvec,
                                          blocks.point3D,
                                          blocks.camera_params)} :
                     IsFinite2(px)} :
       /\ bundle = BundleAdjustmentCostFunction_Create(obs).functor
       /\ rigbundle = RigBundleAdjustmentCostFunction_Create(obs).functor
       /\ \E pose \in {<<blocks.qvec, blocks.tvec>>,
                       <<IdentityQuat, ZeroVec>>} :
            constpose = BundleAdjustmentConstantPoseCostFunction_Create(
                            pose[1], pose[2], obs).functor
  /\ relpose = RelativePoseCostFunction_Create(V2(0, 0), V2(0, 0)).functor
  /\ out = NotEvaluated
  /\ hist = <<>>
  /\ chain = NoChain
  /\ act = NoThreads
  /\ stack = NoThreads

EvaluateBundle ==
  /\ out.ba.pc # "done"
  /\ out' = [out EXCEPT !.ba = BundleAdjustmentCostFunction_Eval(bundle,
                                                                 ArgsBundle)]
  /\ UNCHANGED <<blocks, objects, hist, chain, act, stack>>

EvaluateConstantPose ==
  /\ out.cp.pc # "done"
  /\ out' = [out EXCEPT !.cp =
               BundleAdjustmentConstantPoseCostFunction_Eval(constpose,
                                                             ArgsConstantPose)]
  /\ UNCHANGED <<blocks, objects, hist, chain, act, stack>>

EvaluateRig ==
  /\ out.rig.pc # "done"
  /\ out' = [out EXCEPT !.rig = RigBundleAdjustmentCostFunction_Eval(rigbundle,
                                                                     ArgsRig)]
  /\ UNCHANGED <<blocks, objects, hist, chain, act, stack>>

Next == EvaluateBundle \/ EvaluateConstantPose \/ EvaluateRig

Spec == Init /\ [][Next]_vars

\* ------------------------------------------------------------------------
\* Properties of the reprojection cost functions (under Spec)
\* ------------------------------------------------------------------------
Done(f) == f.pc = "done"

\* C1: with rel_qvec = (1,0,0,0) and rel_tvec = (0,0,0),
\* RigBundleAdjustmentCostFunction on (rig_qvec, rig_tvec) = (q, t) gives the
\* two residuals BundleAdjustmentCostFunction gives on (qvec, tvec) = (q, t),
\* for the same point, intrinsics and observation.
C1_RigIdentityEqualsBundle ==
  ( /\ Done(out.rig)
    /\ Done(out.ba)
    /\ blocks.rel_qvec = IdentityQuat
    /\ blocks.rel_tvec = ZeroVec
    /\ rigbundle.point2D_ = bundle.point2D_ )
  => out.rig.residuals = out.ba.residuals

\* Both evaluated under an identity relative pose, on a rig pose that rotates
\* and translates, with a finite residual that is not zero.
C1_Witness ==
  /\ Done(out.rig)
  /\ Done(out.ba)
  /\ blocks.rel_qvec = IdentityQuat
  /\ blocks.rel_tvec = ZeroVec
  /\ blocks.qvec # IdentityQuat
  /\ blocks.tvec # ZeroVec
  /\ IsFinite2(out.rig.residuals)
  /\ out.rig.residuals # <<Zero, Zero>>

\* C2: BundleAdjustmentConstantPoseCostFunction built with (q, t, observation)
\* gives on (point, intrinsics) the two residuals BundleAdjustmentCostFunction
\* built with the observation gives on (q, t, point, intrinsics).
C2_ConstantPoseEqualsBundle ==
  ( /\ Done(out.cp)
    /\ Done(out.ba)
    /\ constpose.qvec_ = blocks.qvec
    /\ constpose.tvec_ = blocks.tvec
    /\ constpose.point2D_ = bundle.point2D_ )
  => out.cp.residuals = out.ba.residuals

C2_Witness ==
  /\ Done(out.cp)
  /\ Done(out.ba)
  /\ constpose.qvec_ = blocks.qvec
  /\ constpose.tvec_ = blocks.tvec
  /\ blocks.qvec # IdentityQuat
  /\ blocks.tvec # ZeroVec
  /\ IsFinite2(out.cp.residuals)
  /\ out.cp.residuals # <<Zero, Zero>>

\* C3: zero-error identity.  If the observation is the pixel obtained by
\* rotating point3D by the orientation, adding the translation, dividing x and
\* y by z and applying WorldToImage, the residual of
\* BundleAdjustmentCostFunction is (0, 0).
C3_ZeroErrorIdentity ==
  ( /\ Done(out.ba)
    /\ bundle.point2D_ = NoiselessPixel(blocks.qvec, blocks.tvec,
                                        blocks.point3D, blocks.camera_params) )
  => out.ba.residuals = <<Zero, Zero>>

C3_Witness ==
  /\ Done(out.ba)
  /\ bundle.point2D_ = NoiselessPixel(blocks.qvec, blocks.tvec,
                                      blocks.point3D, blocks.camera_params)
  /\ blocks.qvec # IdentityQuat
  /\ blocks.tvec # ZeroVec
  /\ bundle.point2D_ # V2(0, 0)

\* The camera-frame point of a pose: rotate by q, add t.
CameraFrame(q, t, p) == VAdd3(UnitQuaternionRotatePoint(q, p), t)

\* C9: RigBundleAdjustmentCostFunction composes qvec = QuaternionProduct(
\* rel_qvec, rig_qvec) and tvec = rotate(rel_qvec, rig_tvec) + rel_tvec, and
\* the camera-frame point it projects, rotate(qvec, point3D) + tvec, is the
\* point moved first into the rig's system (rotate by rig_qvec, add rig_tvec)
\* and then into the camera's system (rotate by rel_qvec, add rel_tvec).
C9_RigComposition ==
  ( /\ Done(out.rig)
    /\ IsUnitQuat(blocks.qvec)
    /\ IsUnitQuat(blocks.rel_qvec) )
  => LET twoStage == CameraFrame(blocks.rel_qvec, blocks.rel_tvec,
                        CameraFrame(blocks.qvec, blocks.tvec, blocks.point3D))
     IN  /\ out.rig.L.qvec = QuaternionProduct(blocks.rel_qvec, blocks.qvec)
         /\ out.rig.L.tvec =
              VAdd3(UnitQuaternionRotatePoint(blocks.rel_qvec, blocks.tvec),
                    blocks.rel_tvec)
         /\ CameraFrame(out.rig.L.qvec, out.rig.L.tvec, blocks.point3D)
              = twoStage
         /\ out.rig.L.point3D_local = NormalizeToImagePlane(twoStage)

\* Evaluated with two rotations that do not commute and two translations.
C9_Witness ==
  /\ Done(out.rig)
  /\ QuaternionProduct(blocks.rel_qvec, blocks.qvec)
       # QuaternionProduct(blocks.qvec, blocks.rel_qvec)
  /\ blocks.tvec # ZeroVec
  /\ blocks.rel_tvec # ZeroVec
  /\ IsFinite2(out.rig.residuals)

\* ------------------------------------------------------------------------
\* SpecRel: a RelativePoseCostFunction built for a pair of correspondences,
\* evaluated on the caller's (qvec, tvec), re-evaluated after the caller has
\* rescaled tvec
\* ------------------------------------------------------------------------
\* Translations of the second camera: of unit norm, and one that is not.
RelTvecs == {V3(0, 0, 1), V3(1, 0, 0), <<Q(3, 5), Q(4, 5), Zero>>, V3(1, -1, 2)}

\* Normalized image points.
Correspondences == {V2(0, 0), V2(1, 0), V2(-1, 2)}

\* Depths of the synthetic scene points along the ray of x1.
Depths == {R(1), R(2)}

\* Factors the caller rescales tvec by.
Scales == {R(2), R(-1), Q(1, 2)}

\* The image in the second camera (R(q), t) of the point at depth d on the ray
\* of x1 in the first camera.
SecondView(q, t, x1, d) ==
  LET X == VAdd3(MatVec3(QuaternionToRotation(q),
                         VScale3(d, <<x1[1], x1[2], One>>)), t)
  IN  <<RDiv(X[1], X[3]), RDiv(X[2], X[3])>>

InitRel ==
  /\ blocks \in [qvec : Quats, tvec : RelTvecs, rel_qvec : {IdentityQuat},
                 rel_tvec : {ZeroVec}, point3D : {PointPool[1]},
                 camera_params : {V3(1, 0, 0)}]
  /\ \E x1 \in Correspondences :
       \E x2 \in Correspondences \cup
                   {x \in {SecondView(blocks.qvec, blocks.tvec, x1, d) :
                             d \in Depths} : IsFinite2(x)} :
         relpose = RelativePoseCostFunction_Create(x1, x2).functor
  /\ bundle = BundleAdjustmentCostFunction_Create(V2(0, 0)).functor
  /\ rigbundle = RigBundleAdjustmentCostFunction_Create(V2(0, 0)).functor
  /\ constpose = BundleAdjustmentConstantPoseCostFunction_Create(
                     IdentityQuat, ZeroVec, V2(0, 0)).functor
  /\ out = NotEvaluated
  /\ hist = <<>>
  /\ chain = NoChain
  /\ act = NoThreads
  /\ stack = NoThreads

EvaluateRelativePose ==
  /\ out.rel.pc # "done"
  /\ out' = [out EXCEPT !.rel = RelativePoseCostFunction_Eval(relpose,
                                                             ArgsRelativePose)]
  /\ UNCHANGED <<blocks, objects, hist, chain, act, stack>>

\* The caller multiplies its tvec block by s; the evaluation made before is
\* kept in hist.
RescaleTranslation(s) ==
  /\ out.rel.pc = "done"
  /\ hist = <<>>
  /\ hist' = <<[tvec |-> blocks.tvec, f |-> out.rel]>>
  /\ blocks' = [blocks EXCEPT !.tvec = VScale3(s, @)]
  /\ out' = [out EXCEPT !.rel = Entry("R")]
  /\ UNCHANGED <<objects, chain, act, stack>>

NextRel ==
  \/ EvaluateRelativePose
  \/ \E s \in Scales : RescaleTranslation(s)

SpecRel == InitRel /\ [][NextRel]_vars

Cross3(a, b) ==
  << RSub(RMul(a[2], b[3]), RMul(a[3], b[2])),
     RSub(RMul(a[3], b[1]), RMul(a[1], b[3])),
     RSub(RMul(a[1], b[2]), RMul(a[2], b[1])) >>

\* x2_h^T * (t x (R(q) * x1_h))
EpipolarConstraint(q, t, x1, x2) ==
  Dot3(<<x2[1], x2[2], One>>,
       Cross3(t, MatVec3(QuaternionToRotation(q), <<x1[1], x1[2], One>>)))

ExactCorrespondence ==
  IsZero(EpipolarConstraint(blocks.qvec, blocks.tvec, relpose.x1_,
                            relpose.x2_))

\* C4 as stated: for every (q, t) and every x1, x2 with
\* x2_h^T * [t]x * R(q) * x1_h = 0 exactly, RelativePoseCostFunction returns
\* the residual 0.
C4_EpipolarZeroError ==
  (Done(out.rel) /\ ExactCorrespondence) => out.rel.residuals = <<Zero>>

\* C4 as amended: ... returns the residual 0 where the denominator
\* Ex1(0)^2 + Ex1(1)^2 + Etx2(0)^2 + Etx2(1)^2 is not zero, and NaN (0/0)
\* where it is zero.
C4_EpipolarZeroErrorNonSingular ==
  (Done(out.rel) /\ ExactCorrespondence)
  => IF IsZero(SampsonDenominator(out.rel.L.Ex1, out.rel.L.Etx2))
     THEN out.rel.residuals = <<NaN>>
     ELSE out.rel.residuals = <<Zero>>

\* An exact correspondence of a second camera that is rotated, evaluated with
\* a denominator that is not zero.
C4_Witness ==
  /\ Done(out.rel)
  /\ ExactCorrespondence
  /\ blocks.qvec # IdentityQuat
  /\ relpose.x1_ # relpose.x2_
  /\ ~IsZero(SampsonDenominator(out.rel.L.Ex1, out.rel.L.Etx2))

\* C10: the residual of RelativePoseCostFunction at (q, s*t) is its residual
\* at (q, t), for every s # 0, where the Sampson denominator at (q, t) is not
\* zero.
C10_TranslationScaleInvariance ==
  ( /\ hist # <<>>
    /\ Done(out.rel)
    /\ ~IsZero(SampsonDenominator(hist[1].f.L.Ex1, hist[1].f.L.Etx2)) )
  => out.rel.residuals = hist[1].f.residuals

\* Evaluated before and after a rescaling, with a residual that is finite and
\* not zero.
C10_Witness ==
  /\ hist # <<>>
  /\ Done(out.rel)
  /\ blocks.tvec # hist[1].tvec
  /\ IsFinite(hist[1].f.residuals[1])
  /\ ~IsZero(hist[1].f.residuals[1])
  /\ out.rel.L.E # hist[1].f.L.E

\* ------------------------------------------------------------------------
\* SpecChain: the composition of RigBundleAdjustmentCostFunction ("concatenate
\* rotations", "concatenate translations") chained over three rigid
\* transforms A, B, C, in both groupings
\* ------------------------------------------------------------------------
\* The pose of outer after inner, composed as operator() composes the pose of
\* the camera within the rig (outer) after the pose of the rig (inner).
ComposePose(outer, inner) ==
  [q |-> ConcatenateRotations(outer.q, inner.q),
   t |-> ConcatenateTranslations(outer.q, inner.t, outer.t)]

Poses == [q : Quats, t : Tvecs]

InitChain ==
  /\ chain \in [A : Poses, B : Poses, C : Poses, point3D : Points,
                BA : {<<>>}, C_BA : {<<>>}, CB : {<<>>}, CB_A : {<<>>}]
  /\ blocks = [qvec |-> IdentityQuat, tvec |-> ZeroVec,
               rel_qvec |-> IdentityQuat, rel_tvec |-> ZeroVec,
               point3D |-> PointPool[1], camera_params |-> V3(1, 0, 0)]
  /\ bundle = BundleAdjustmentCostFunction_Create(V2(0, 0)).functor
  /\ rigbundle = RigBundleAdjustmentCostFunction_Create(V2(0, 0)).functor
  /\ constpose = BundleAdjustmentConstantPoseCostFunction_Create(
                     IdentityQuat, ZeroVec, V2(0, 0)).functor
  /\ relpose = RelativePoseCostFunction_Create(V2(0, 0), V2(0, 0)).functor
  /\ out = NotEvaluated
  /\ hist = <<>>
  /\ act = NoThreads
  /\ stack = NoThreads

\* B after A.
ComposeInner ==
  /\ chain.BA = <<>>
  /\ chain' = [chain EXCEPT !.BA = <<ComposePose(chain.B, chain.A)>>]
  /\ UNCHANGED <<blocks, objects, out, hist, act, stack>>

\* C after (B after A).
ComposeAfterInner ==
  /\ chain.BA # <<>>
  /\ chain.C_BA = <<>>
  /\ chain' = [chain EXCEPT !.C_BA = <<ComposePose(chain.C, chain.BA[1])>>]
  /\ UNCHANGED <<blocks, objects, out, hist, act, stack>>

\* C after B.
ComposeOuter ==
  /\ chain.CB = <<>>
  /\ chain' = [chain EXCEPT !.CB = <<ComposePose(chain.C, chain.B)>>]
  /\ UNCHANGED <<blocks, objects, out, hist, act, stack>>

\* (C after B) after A.
ComposeOuterAfter ==
  /\ chain.CB # <<>>
  /\ chain.CB_A = <<>>
  /\ chain' = [chain EXCEPT !.CB_A = <<ComposePose(chain.CB[1], chain.A)>>]
  /\ UNCHANGED <<blocks, objects, out, hist, act, stack>>

NextChain ==
  ComposeInner \/ ComposeAfterInner \/ ComposeOuter \/ ComposeOuterAfter

SpecChain == InitChain /\ [][NextChain]_vars

\* C8: composition associativity.  ((C after B) after A) is the rigid
\* transform (C after (B after A)), and gives the same camera-frame point,
\* for unit quaternions.
C8_CompositionAssociativity ==
  ( /\ chain.C_BA # <<>>
    /\ chain.CB_A # <<>>
    /\ IsUnitQuat(chain.A.q)
    /\ IsUnitQuat(chain.B.q)
    /\ IsUnitQuat(chain.C.q) )
  => /\ chain.CB_A[1] = chain.C_BA[1]
     /\ CameraFrame(chain.CB_A[1].q, chain.CB_A[1].t, chain.point3D)
          = CameraFrame(chain.C_BA[1].q, chain.C_BA[1].t, chain.point3D)

\* Both groupings composed, of rotations that do not commute and translations
\* that are not zero.
C8_Witness ==
  /\ chain # NoChain
  /\ chain.C_BA # <<>>
  /\ chain.CB_A # <<>>
  /\ QuaternionProduct(chain.C.q, chain.B.q)
       # QuaternionProduct(chain.B.q, chain.C.q)
  /\ QuaternionProduct(chain.B.q, chain.A.q)
       # QuaternionProduct(chain.A.q, chain.B.q)
  /\ chain.A.t # ZeroVec
  /\ chain.B.t # ZeroVec
  /\ chain.C.t # ZeroVec

\* ------------------------------------------------------------------------
\* SpecStep: threads of the optimizer evaluate the cost functions on the
\* shared parameter blocks concurrently, one statement of operator() at a time
\* ------------------------------------------------------------------------
\* How many threads evaluate at once.
NumThreads == 2

Threads == 1..NumThreads

Fns == {"ba", "cp", "rig", "rel"}

EntryPc(fn) ==
  CASE fn = "ba" -> "rotate"
    [] fn = "cp" -> "qvec"
    [] fn = "rig" -> "qvec"
    [] fn = "rel" -> "R"

\* The locals in static storage: one copy shared by every activation.
Slot_Static(t) == 1

\* The storage of the locals of the activation of thread t: T qvec[4],
\* T tvec[3], T point3D_local[3], T x, y, the Eigen matrices and vectors are
\* automatic variables of operator(), one copy for each activation.
Slot(t) == t

\* Parameter blocks and correspondences of the concurrent evaluations: a
\* regular scene; one with the point at depth 0 of the camera and the
\* correspondences on the epipoles; one with the point behind the camera.
StepScenes ==
  { [blocks |-> [qvec |-> QuatPool[2], tvec |-> V3(1, -1, 2),
                 rel_qvec |-> QuatPool[3], rel_tvec |-> V3(1, -1, 2),
                 point3D |-> V3(2, -1, 3), camera_params |-> V3(2, 1, -1)],
     x1 |-> V2(1, 0), x2 |-> V2(-1, 2)],
    [blocks |-> [qvec |-> IdentityQuat, tvec |-> V3(0, 0, 1),
                 rel_qvec |-> IdentityQuat, rel_tvec |-> ZeroVec,
                 point3D |-> V3(1, 1, -1), camera_params |-> V3(2, 1, -1)],
     x1 |-> V2(0, 0), x2 |-> V2(0, 0)],
    [blocks |-> [qvec |-> QuatPool[4], tvec |-> V3(0, 0, 1),
                 rel_qvec |-> QuatPool[2], rel_tvec |-> V3(1, -1, 2),
                 point3D |-> V3(1, 2, 2), camera_params |-> V3(1, 0, 0)],
     x1 |-> V2(1, 0), x2 |-> V2(0, 0)] }

InitStep ==
  /\ \E sc \in StepScenes :
       /\ blocks = sc.blocks
       /\ relpose = RelativePoseCostFunction_Create(sc.x1, sc.x2).functor
       /\ constpose = BundleAdjustmentConstantPoseCostFunction_Create(
                          sc.blocks.qvec, sc.blocks.tvec, V2(1, -1)).functor
  /\ bundle = BundleAdjustmentCostFunction_Create(V2(1, -1)).functor
  /\ rigbundle = RigBundleAdjustmentCostFunction_Create(V2(1, -1)).functor
  /\ act \in [Threads -> {[fn |-> fn, f |-> Entry(EntryPc(fn))] : fn \in Fns}]
  /\ stack = [s \in Threads |-> EmptyLocals]
  /\ out = NotEvaluated
  /\ hist = <<>>
  /\ chain = NoChain

\* The activation of thread t with its locals read from their storage.
Frame(t) == [act[t].f EXCEPT !.L = stack[Slot(t)]]

\* Thread t has executed a statement that leaves the activation g.
Executed(t, g) ==
  /\ act' = [act EXCEPT ![t].f = [g EXCEPT !.L = EmptyLocals]]
  /\ stack' = [stack EXCEPT ![Slot(t)] = g.L]
  /\ UNCHANGED <<blocks, objects, out, hist, chain>>

StepBundle(t) ==
  /\ act[t].fn = "ba"
  /\ act[t].f.pc # "done"
  /\ Executed(t, BundleAdjustmentCostFunction_Step(bundle, ArgsBundle,
                                                   Frame(t)))

StepConstantPose(t) ==
  /\ act[t].fn = "cp"
  /\ act[t].f.pc # "done"
  /\ Executed(t, BundleAdjustmentConstantPoseCostFunction_Step(
                     constpose, ArgsConstantPose, Frame(t)))

StepRig(t) ==
  /\ act[t].fn = "rig"
  /\ act[t].f.pc # "done"
  /\ Executed(t, RigBundleAdjustmentCostFunction_Step(rigbundle, ArgsRig,
                                                      Frame(t)))

StepRelativePose(t) ==
  /\ act[t].fn = "rel"
  /\ act[t].f.pc # "done"
  /\ Executed(t, RelativePoseCostFunction_Step(relpose, ArgsRelativePose,
                                               Frame(t)))

NextStep ==
  \E t \in Threads :
    \/ StepBundle(t)
    \/ StepConstantPose(t)
    \/ StepRig(t)
    \/ StepRelativePose(t)

SpecStep == InitStep /\ [][NextStep]_vars

\* The evaluation of fn run alone, from entry to return.
Alone(fn) ==
  CASE fn = "ba" -> BundleAdjustmentCostFunction_Eval(bundle, ArgsBundle)
    [] fn = "cp" -> BundleAdjustmentConstantPoseCostFunction_Eval(
                        constpose, ArgsConstantPose)
    [] fn = "rig" -> RigBundleAdjustmentCostFunction_Eval(rigbundle, ArgsRig)
    [] fn = "rel" -> RelativePoseCostFunction_Eval(relpose, ArgsRelativePose)

\* What the Create of fn declares to the optimizer.
Declared(fn) ==
  CASE fn = "ba" -> BundleAdjustmentCostFunction_Create(bundle.point2D_)
    [] fn = "cp" -> BundleAdjustmentConstantPoseCostFunction_Create(
                        constpose.qvec_, constpose.tvec_, constpose.point2D_)
    [] fn = "rig" -> RigBundleAdjustmentCostFunction_Create(
                         rigbundle.point2D_)
    [] fn = "rel" -> RelativePoseCostFunction_Create(relpose.x1_,
                                                     relpose.x2_)

\* The finished evaluations.
Finished == {t \in DOMAIN act : Done(act[t].f)}

\* The camera-frame depth point3D_local[2] of a finished reprojection.
Depth(t) == stack[Slot(t)].point3D_local[3]

\* The Sampson denominator of a finished RelativePoseCostFunction.
Denominator(t) == SampsonDenominator(stack[Slot(t)].Ex1, stack[Slot(t)].Etx2)

\* C5: every evaluation of each of the four cost functions returns true, also
\* where point3D_local[2] is zero or negative and where the Sampson
\* denominator is zero; the singular quotient is what is written to the
\* residuals.
C5_AlwaysSucceeds ==
  \A t \in Finished :
    /\ act[t].f.ret = TRUE
    /\ (act[t].fn # "rel" /\ IsZero(Depth(t))) =>
         /\ ~IsFinite(act[t].f.residuals[1])
         /\ ~IsFinite(act[t].f.residuals[2])
    /\ (act[t].fn = "rel" /\ IsZero(Denominator(t))) =>
         ~IsFinite(act[t].f.residuals[1])

\* A reprojection finished at depth 0 and a RelativePoseCostFunction finished
\* with a zero denominator, both having returned true.
C5_Witness ==
  /\ \E t \in Finished :
       act[t].fn # "rel" /\ IsZero(Depth(t)) /\ act[t].f.ret = TRUE
  /\ \E t \in Finished :
       act[t].fn = "rel" /\ IsZero(Denominator(t)) /\ act[t].f.ret = TRUE

\* Each finished evaluation has the residual and return value of the same
\* call run alone.
AsRunAlone ==
  \A t \in Finished :
    /\ act[t].f.residuals = Alone(act[t].fn).residuals
    /\ act[t].f.ret = Alone(act[t].fn).ret

\* A step of thread t changes nothing of another thread's activation, of the
\* captured constants or of the caller's parameter blocks.
WritesOnlyOwn ==
  /\ objects' = objects
  /\ blocks' = blocks
  /\ \A t, u \in DOMAIN act :
       (act'[t] # act[t] /\ u # t) => act'[u] = act[u]

\* C6: under any interleaving of concurrent evaluations, each evaluation
\* leaves point2D_, qvec_, tvec_, x1_, x2_ and the parameter arrays unchanged,
\* writes only its own residuals, and yields the residual of the same call
\* run alone.
C6_PureAndReentrant == [](AsRunAlone) /\ [][WritesOnlyOwn]_vars

\* An evaluation of the rig cost function finished, with a finite residual,
\* while an evaluation of another cost function is between two statements.
C6_Witness ==
  \E t, u \in Threads :
    /\ act[t].fn = "rig"
    /\ Done(act[t].f)
    /\ IsFinite2(act[t].f.residuals)
    /\ act[u].fn = "ba"
    /\ act[u].f.pc = "normalize"

\* The cells of the pose, point and translation blocks a declaration covers:
\* every block but camera_params, which is the last block of the three
\* reprojection cost functions.
DeclaredCells(fn) ==
  LET sizes == Declared(fn).block_sizes
      n == IF fn = "rel" THEN Len(sizes) ELSE Len(sizes) - 1
  IN  UNION {Cells(k - 1, sizes[k]) : k \in 1..n}

\* C7: the Create factories declare (2; 4,3,3,num_params), (2; 3,num_params),
\* (2; 4,3,4,3,3,num_params) and (1; 4,3), and operator() agrees: it takes the
\* blocks in that order, reads no index of a pose, point or translation block
\* outside the declared size, and writes residuals 0..dimension-1.
C7_DeclarationAgrees ==
  /\ Declared("ba").num_residuals = 2
  /\ Declared("ba").block_sizes = <<4, 3, 3, num_params>>
  /\ Declared("cp").num_residuals = 2
  /\ Declared("cp").block_sizes = <<3, num_params>>
  /\ Declared("rig").num_residuals = 2
  /\ Declared("rig").block_sizes = <<4, 3, 4, 3, 3, num_params>>
  /\ Declared("rel").num_residuals = 1
  /\ Declared("rel").block_sizes = <<4, 3>>
  /\ \A t \in DOMAIN act :
       LET d == Declared(act[t].fn)
           f == act[t].f
       IN  /\ f.reads \subseteq DeclaredCells(act[t].fn)
           /\ f.writes \subseteq 0..(d.num_residuals - 1)
           /\ Done(f) =>
                /\ f.reads = DeclaredCells(act[t].fn)
                /\ f.writes = 0..(d.num_residuals - 1)
                /\ Len(f.residuals) = d.num_residuals

\* A finished evaluation of the rig cost function and one of
\* RelativePoseCostFunction.
C7_Witness ==
  /\ \E t \in Finished : act[t].fn = "rig"
  /\ \E t \in Finished : act[t].fn = "rel"

====
